---------------------------- MODULE Spec2Model ----------------------------
(***************************************************************************)
(* LA-Rest-Data: the Collector (LACountyRestaurantExtractor) and the       *)
(* Cleaner (DataCleaner) as run by run_extraction.main.                    *)
(*                                                                         *)
(* Representation.                                                         *)
(*   - A Python str is a sequence of one-character strings.                *)
(*   - An optional value (None, NaN, a missing JSON key) is None == <<>>,  *)
(*     a present value v is Some(v) == <<v>>.                              *)
(*   - A rating sent by the API is an integer number of hundredths of a    *)
(*     star; a Rating of a record is an integer number of tenths (the code *)
(*     rounds to one decimal).                                             *)
(*   - A coordinate sent by the API is an integer number of 1e-7 degrees;  *)
(*     a Latitude/Longitude of a record is an integer number of 1e-6       *)
(*     degrees (the code rounds to six decimals).                          *)
(*   - A mean of ratings is the exact fraction num / den of tenths of a    *)
(*     star; a Market_Saturation_Index is an integer number of thousandths *)
(*     (the code rounds to three decimals).                                *)
(***************************************************************************)
EXTENDS Integers, Sequences, FiniteSets, TLC

VARIABLES
    pc,               \* position of run_extraction.main
    call_count,       \* self.call_count
    restaurants_data, \* self.restaurants_data
    area_i,           \* index of the area the loop of run_full_extraction is at
    places,           \* the list search_restaurants_by_area returned for that area
    place_j,          \* index of the next place of `places` to map
    requests_sent,    \* number of requests the run issued (calls of requests.post)
    outcomes,         \* per visited area, the outcome of its search (the log)
    responses,        \* per visited area, the payload its search returned
    raw_files,        \* data/raw/<area>.json: area index -> Some(payload) or None
    returned,         \* the value run_full_extraction returned
    csv_file,         \* data/processed/la_county_restaurants_final.csv
    cleaned_file,     \* data/processed/la_restaurants_cleaned.csv
    api_key,          \* os.getenv('GOOGLE_PLACES_API_KEY'): None or Some(str)
    loaded,           \* what load_data returned to process_all_data
    cleaned,          \* what clean_data_quality returned to process_all_data
    report,           \* the last thing main printed about the run
    call,             \* a derived-field function called on its own: its arguments
    ret               \* and what it returned

\* the variables of a run of run_extraction.main
run_vars == <<pc, call_count, restaurants_data, area_i, places, place_j,
              requests_sent, outcomes, responses, raw_files, returned, csv_file,
              cleaned_file, api_key, loaded, cleaned, report>>

\* the variables of a call of one derived-field function
call_vars == <<call, ret>>

vars == <<pc, call_count, restaurants_data, area_i, places, place_j,
          requests_sent, outcomes, responses, raw_files, returned, csv_file, cleaned_file,
          api_key, loaded, cleaned, report, call, ret>>

-----------------------------------------------------------------------------
(* Bounds of the model *)

\* Number of entries of get_la_county_search_areas the run iterates over.
NumAreas == 3

\* Most places the search API returns over one run, all responses together.
MaxPlaces == 2

\* self.daily_limit, scaled from the source's 5000 down to the number of
\* areas of the model so that a run can reach the ceiling.
daily_limit == 2

-----------------------------------------------------------------------------
(* Optional values *)

None == <<>>
Some(v) == <<v>>
IsNone(o) == o = <<>>
Val(o) == o[1]

-----------------------------------------------------------------------------
(* Python str operations on sequences of characters *)

LowerCase == <<"a","b","c","d","e","f","g","h","i","j","k","l","m",
               "n","o","p","q","r","s","t","u","v","w","x","y","z">>
UpperCase == <<"A","B","C","D","E","F","G","H","I","J","K","L","M",
               "N","O","P","Q","R","S","T","U","V","W","X","Y","Z">>
Digits == <<"0","1","2","3","4","5","6","7","8","9">>

Range(s) == {s[k] : k \in DOMAIN s}
IndexIn(tbl, c) == CHOOSE k \in DOMAIN tbl : tbl[k] = c

LowerChars == Range(LowerCase)
UpperChars == Range(UpperCase)
DigitChars == Range(Digits)

IsLower(c) == c \in LowerChars
IsUpper(c) == c \in UpperChars
IsCased(c) == IsLower(c) \/ IsUpper(c)
IsDigit(c) == c \in DigitChars
\* \w of the re module
IsWord(c) == IsCased(c) \/ IsDigit(c) \/ c = "_"
IsSpace(c) == c = " "

ToUpper(c) == IF IsLower(c) THEN UpperCase[IndexIn(LowerCase, c)] ELSE c
ToLower(c) == IF IsUpper(c) THEN LowerCase[IndexIn(UpperCase, c)] ELSE c

\* str.strip(): leading and trailing whitespace removed
RECURSIVE LStrip(_)
LStrip(s) == IF s # <<>> /\ IsSpace(Head(s)) THEN LStrip(Tail(s)) ELSE s
RECURSIVE RStrip(_)
RStrip(s) ==
    IF s # <<>> /\ IsSpace(s[Len(s)]) THEN RStrip(SubSeq(s, 1, Len(s) - 1)) ELSE s
Strip(s) == RStrip(LStrip(s))

\* str.title(): a cased character is upper-cased when the character before it
\* is uncased (or there is none), lower-cased otherwise
Title(s) ==
    [k \in DOMAIN s |->
        IF k > 1 /\ IsCased(s[k - 1]) THEN ToLower(s[k]) ELSE ToUpper(s[k])]

\* str.zfill(width) of a string without sign
RECURSIVE ZFill(_, _)
ZFill(s, width) == IF Len(s) >= width THEN s ELSE ZFill(<<"0">> \o s, width)

\* int(s) for a string of decimal digits
RECURSIVE StrToInt(_)
StrToInt(s) ==
    IF s = <<>> THEN 0
    ELSE 10 * StrToInt(SubSeq(s, 1, Len(s) - 1)) + (IndexIn(Digits, s[Len(s)]) - 1)

\* str(n) for an integer n >= 0
RECURSIVE IntToStr(_)
IntToStr(n) ==
    IF n < 10 THEN <<Digits[n + 1]>>
    ELSE IntToStr(n \div 10) \o <<Digits[(n % 10) + 1]>>

\* round(x / 10) of Python 3 on an exact decimal: half to even
RoundDiv10(x) ==
    LET q == x \div 10
        r == x % 10
    IN  IF r < 5 THEN q
        ELSE IF r > 5 THEN q + 1
        ELSE IF q % 2 = 0 THEN q ELSE q + 1

IsPrefix(s, t) == Len(s) <= Len(t) /\ SubSeq(t, 1, Len(s)) = s

-----------------------------------------------------------------------------
(* The search areas: the head of get_la_county_search_areas *)

AllAreas == <<
    [name |-> <<"B","e","v","e","r","l","y"," ","H","i","l","l","s">>, zip_hint |-> <<"9","0","2","1","0">>],
    [name |-> <<"S","a","n","t","a"," ","M","o","n","i","c","a">>, zip_hint |-> <<"9","0","4","0","1">>],
    [name |-> <<"H","o","l","l","y","w","o","o","d">>, zip_hint |-> <<"9","0","0","2","8">>],
    [name |-> <<"W","e","s","t"," ","H","o","l","l","y","w","o","o","d">>, zip_hint |-> <<"9","0","0","6","9">>] >>

search_areas == SubSeq(AllAreas, 1, NumAreas)

-----------------------------------------------------------------------------
(* extract_zip_code: re.search(r'\b\d{5}(?:-\d{4})?\b', address), [:5] *)

\* \b between positions k and k+1 of s (k = 0: before the first character)
WordAt(s, k) == k >= 1 /\ k <= Len(s) /\ IsWord(s[k])
IsBoundary(s, k) == WordAt(s, k) # WordAt(s, k + 1)

DigitsAt(s, from, n) ==
    /\ from + n - 1 <= Len(s)
    /\ \A k \in from .. (from + n - 1) : IsDigit(s[k])

\* the pattern matches at position p (the regex tries the +4 form first; the
\* text returned is the same five digits either way)
ZipMatchAt(s, p) ==
    /\ IsBoundary(s, p - 1)
    /\ DigitsAt(s, p, 5)
    /\ \/ /\ p + 5 <= Len(s)
          /\ s[p + 5] = "-"
          /\ DigitsAt(s, p + 6, 4)
          /\ IsBoundary(s, p + 9)
       \/ IsBoundary(s, p + 4)

ZipMatches(s) == {p \in DOMAIN s : ZipMatchAt(s, p)}

FirstMatch(s) == CHOOSE p \in ZipMatches(s) : \A q \in ZipMatches(s) : p <= q

\* faulty variant: the whole match is returned, the +4 part included
extract_zip_code_whole_match(address) ==
    IF address = <<>> THEN None
    ELSE IF ZipMatches(address) # {} THEN
        LET p == FirstMatch(address)
            nine == /\ p + 5 <= Len(address)
                    /\ address[p + 5] = "-"
                    /\ DigitsAt(address, p + 6, 4)
                    /\ IsBoundary(address, p + 9)
        IN  Some(SubSeq(address, p, IF nine THEN p + 9 ELSE p + 4))
    ELSE None

extract_zip_code(address) ==
    IF address = <<>> THEN None
    ELSE IF ZipMatches(address) # {} THEN
        Some(SubSeq(address, FirstMatch(address), FirstMatch(address) + 4))
    ELSE None

-----------------------------------------------------------------------------
(* extract_restaurant_data *)

Unknown == <<"U","n","k","n","o","w","n">>

\* faulty variant: the default of the lookup is 0
price_level_map_default_zero(p) ==
    IF IsNone(p) THEN Some(0)
    ELSE CASE Val(p) = "PRICE_LEVEL_FREE" -> Some(0)
           [] Val(p) = "PRICE_LEVEL_INEXPENSIVE" -> Some(1)
           [] Val(p) = "PRICE_LEVEL_MODERATE" -> Some(2)
           [] Val(p) = "PRICE_LEVEL_EXPENSIVE" -> Some(3)
           [] Val(p) = "PRICE_LEVEL_VERY_EXPENSIVE" -> Some(4)
           [] OTHER -> Some(0)

\* lines 106-113
price_level_map(p) ==
    IF IsNone(p) THEN None
    ELSE CASE Val(p) = "PRICE_LEVEL_FREE" -> Some(0)
           [] Val(p) = "PRICE_LEVEL_INEXPENSIVE" -> Some(1)
           [] Val(p) = "PRICE_LEVEL_MODERATE" -> Some(2)
           [] Val(p) = "PRICE_LEVEL_EXPENSIVE" -> Some(3)
           [] Val(p) = "PRICE_LEVEL_VERY_EXPENSIVE" -> Some(4)
           [] OTHER -> None

\* dict.get(key, default)
GetOr(o, default) == IF IsNone(o) THEN default ELSE Val(o)

\* round(x, n) if x else None, x given in tenths of the unit of the result
RoundIfTruthy(x) == IF x # 0 THEN Some(RoundDiv10(x)) ELSE None

\* The record built in the try block; a place whose JSON shape makes the block
\* raise (displayName or location not an object, a rating that is not a
\* number) is `malformed` and yields None.
extract_restaurant_data(place, neighborhood) ==
    IF place.malformed THEN None
    ELSE LET address == GetOr(place.formattedAddress, <<>>)
         IN  Some([ZIP_Code        |-> extract_zip_code(address),
                   Restaurant_Name |-> GetOr(place.displayName, Unknown),
                   Rating          |-> RoundIfTruthy(GetOr(place.rating, 0)),
                   Review_Count    |-> GetOr(place.userRatingCount, 0),
                   Price_Level     |-> price_level_map(place.priceLevel),
                   Latitude        |-> RoundIfTruthy(GetOr(place.latitude, 0)),
                   Longitude       |-> RoundIfTruthy(GetOr(place.longitude, 0)),
                   Neighborhood    |-> neighborhood,
                   Address         |-> address])

\* `if not restaurant_data['ZIP_Code']: restaurant_data['ZIP_Code'] = zip_hint`
WithZipHint(rec, zip_hint) ==
    IF IsNone(rec.ZIP_Code) \/ rec.ZIP_Code = Some(<<>>)
    THEN [rec EXCEPT !.ZIP_Code = Some(zip_hint)]
    ELSE rec

-----------------------------------------------------------------------------
(* What the search API may return: the places of a response *)

Place(name, rating, count, price, lat, lon, address) ==
    [malformed |-> FALSE, displayName |-> name, rating |-> rating,
     userRatingCount |-> count, priceLevel |-> price,
     latitude |-> lat, longitude |-> lon, formattedAddress |-> address]

JoeName == <<"J","o","e">>
AddrA == <<"a"," ","9","0","2","1","0">>
AddrB == <<"b"," ","9","0","2","1","0","0">>

\* "Joe", 4.0 stars
JoeA == Place(Some(JoeName), Some(400), Some(10), Some("PRICE_LEVEL_MODERATE"),
              Some(340500000), Some(-1182500000), Some(AddrA))
\* the same name and address, 4.24 stars
JoeB == Place(Some(JoeName), Some(424), Some(12), Some("PRICE_LEVEL_EXPENSIVE"),
              Some(340500000), Some(-1182500000), Some(AddrA))
\* the same name and address, located at (0, 0)
JoeZero == Place(Some(JoeName), Some(400), Some(10), None,
                 Some(0), Some(0), Some(AddrA))
\* " joe" at an address whose only digits are a six-digit run (no ZIP
\* pattern), 7.26 stars, -5 reviews
JoeLower == Place(Some(<<" ","j","o","e">>), Some(726), Some(-5), None,
                  Some(340600000), Some(-1182600000), Some(AddrB))
\* no displayName, no rating, no count, no address, an unlisted price level
NoName == Place(None, None, None, Some("PRICE_LEVEL_UNSPECIFIED"),
                Some(340500000), Some(-1182500000), None)
\* north of the bounding box; a five-digit street number before the ZIP+4
OutBox == Place(Some(<<"C","d">>), None, Some(3), Some("PRICE_LEVEL_INEXPENSIVE"),
                Some(360000000), Some(-1182500000), Some(<<"1","2","3","4","5"," ","a"," ","9","0","2","1","1","-","1","2","3","4">>))
\* on the corner of the bounding box after rounding; a ZIP+4 with a leading 0
Edge == Place(Some(<<"E","f">>), Some(500), Some(1), Some("PRICE_LEVEL_VERY_EXPENSIVE"),
              Some(334999996), Some(-1169999996), Some(<<"0","2","1","3","4","-","0","0","0","1">>))
\* a place whose shape makes extract_restaurant_data raise
Malformed == [JoeA EXCEPT !.malformed = TRUE]
\* a displayName that is the placeholder in lower case
LowerUnknown == Place(Some(<<"u","n","k","n","o","w","n">>), Some(450), Some(100), None,
                      Some(340700000), Some(-1182700000), Some(AddrA))

Places == {JoeA, JoeB, JoeZero, JoeLower, NoName, OutBox, Edge, Malformed,
           LowerUnknown}

RECURSIVE SeqsUpTo(_, _)
SeqsUpTo(S, n) ==
    IF n = 0 THEN {<<>>}
    ELSE SeqsUpTo(S, n - 1) \cup
         {Append(q, x) : q \in {r \in SeqsUpTo(S, n - 1) : Len(r) = n - 1}, x \in S}

\* results.get('places', []) of a 200 response
Payloads == SeqsUpTo(Places, MaxPlaces)

RECURSIVE TotalLen(_)
TotalLen(ss) == IF ss = <<>> THEN 0 ELSE Len(Head(ss)) + TotalLen(Tail(ss))

-----------------------------------------------------------------------------
(* State when run_extraction.main starts; LACountyRestaurantExtractor() *)

\* what the environment may hold for GOOGLE_PLACES_API_KEY: nothing, the
\* empty string, a key
ApiKeys == {None, Some(""), Some("key")}

Init ==
    /\ pc = "start"
    /\ api_key \in ApiKeys
    /\ call_count = 0
    /\ restaurants_data = <<>>
    /\ area_i = 1
    /\ places = <<>>
    /\ place_j = 1
    /\ requests_sent = 0
    /\ outcomes = <<>>
    /\ responses = <<>>
    /\ raw_files = [a \in 1 .. NumAreas |-> None]
    /\ returned = None
    /\ csv_file = None
    /\ cleaned_file = None
    /\ loaded = None
    /\ cleaned = None
    /\ report = "none"
    /\ call = None
    /\ ret = None

\* faulty variant: only a key that is None is refused
ApiKeyNotNone == ~IsNone(api_key)

\* line 39: the negation of `not self.api_key`
ApiKeyTruthy == ~IsNone(api_key) /\ Val(api_key) # ""

\* lines 21-40, and line 22 of run_extraction.py: the constructor returns
Construct ==
    /\ pc = "start"
    /\ ApiKeyTruthy
    /\ pc' = "search"
    /\ UNCHANGED <<call_count, restaurants_data, area_i, places, place_j,
                   requests_sent, outcomes, responses, raw_files, returned,
                   csv_file, cleaned_file, api_key, loaded, cleaned, report,
                   call, ret>>

\* line 40, and lines 73-76 of run_extraction.py: the constructor raises
\* ValueError, main prints FATAL ERROR and calls sys.exit(1)
ConstructRaises ==
    /\ pc = "start"
    /\ ~ApiKeyTruthy
    /\ pc' = "exited"
    /\ report' = "fatal"
    /\ UNCHANGED <<call_count, restaurants_data, area_i, places, place_j,
                   requests_sent, outcomes, responses, raw_files, returned,
                   csv_file, cleaned_file, api_key, loaded, cleaned, call, ret>>

-----------------------------------------------------------------------------
(* search_restaurants_by_area, called at line 302 of run_full_extraction *)

\* faulty variant: the ceiling compared with > instead of >=
LimitReachedStrict == call_count > daily_limit

\* `if self.call_count >= self.daily_limit`
LimitReached == call_count >= daily_limit

InLoop == pc = "search" /\ area_i <= NumAreas

\* what every way out of search_restaurants_by_area does to the caller
SearchReturns(result, outcome) ==
    /\ places' = result
    /\ place_j' = 1
    /\ outcomes' = Append(outcomes, outcome)
    /\ responses' = Append(responses, result)
    /\ pc' = "map"
    /\ UNCHANGED <<restaurants_data, area_i, raw_files, returned, csv_file,
                   cleaned_file>>
    /\ UNCHANGED <<api_key, loaded, cleaned, report, call, ret>>

\* lines 63-65: the ceiling is reached, no request
SearchAtLimit ==
    /\ InLoop
    /\ LimitReached
    /\ UNCHANGED <<call_count, requests_sent>>
    /\ SearchReturns(<<>>, "limit")

\* lines 76-86: the request is answered with status 200
SearchOk ==
    /\ InLoop
    /\ ~LimitReached
    /\ requests_sent' = requests_sent + 1
    /\ call_count' = call_count + 1
    /\ \E payload \in Payloads :
          /\ TotalLen(responses) + Len(payload) <= MaxPlaces
          /\ SearchReturns(payload, "ok")

\* lines 76-89: the request is answered with another status
SearchApiError ==
    /\ InLoop
    /\ ~LimitReached
    /\ requests_sent' = requests_sent + 1
    /\ call_count' = call_count + 1
    /\ SearchReturns(<<>>, "error")

\* faulty variant: the exception of requests.post ends the loop
SearchPostRaisesAborts ==
    /\ pc = "search"
    /\ area_i <= NumAreas
    /\ call_count < daily_limit
    /\ requests_sent' = requests_sent + 1
    /\ outcomes' = Append(outcomes, "error")
    /\ responses' = Append(responses, <<>>)
    /\ returned' = Some(restaurants_data)
    /\ pc' = "extracted"
    /\ UNCHANGED <<call_count, restaurants_data, area_i, places, place_j,
                   raw_files, csv_file, cleaned_file>>
    /\ UNCHANGED <<api_key, loaded, cleaned, report, call, ret>>

\* lines 76, 91-93: requests.post raises (no connection, a reset, a broken
\* read after the request left); line 77 is skipped
SearchPostRaises ==
    /\ InLoop
    /\ ~LimitReached
    /\ requests_sent' = requests_sent + 1
    /\ UNCHANGED call_count
    /\ SearchReturns(<<>>, "error")

\* lines 76-83, 91-93: status 200 with a body response.json() cannot parse
SearchJsonRaises ==
    /\ InLoop
    /\ ~LimitReached
    /\ requests_sent' = requests_sent + 1
    /\ call_count' = call_count + 1
    /\ SearchReturns(<<>>, "error")

-----------------------------------------------------------------------------
(* run_full_extraction: the body of the loop over the areas, and the return *)

\* lines 305-313: one turn of `for place in places`
MapPlace ==
    /\ pc = "map"
    /\ place_j <= Len(places)
    /\ LET restaurant_data ==
               extract_restaurant_data(places[place_j], search_areas[area_i].name)
       IN  restaurants_data' =
               IF IsNone(restaurant_data) THEN restaurants_data
               ELSE Append(restaurants_data,
                           WithZipHint(Val(restaurant_data),
                                       search_areas[area_i].zip_hint))
    /\ place_j' = place_j + 1
    /\ UNCHANGED <<pc, call_count, area_i, places, requests_sent, outcomes,
                   responses, raw_files, returned, csv_file, cleaned_file>>
    /\ UNCHANGED <<api_key, loaded, cleaned, report, call, ret>>

\* faulty variant: only the places that were mapped are backed up
SaveRawDataMappedOnly ==
    /\ pc = "map"
    /\ place_j > Len(places)
    /\ raw_files' = [raw_files EXCEPT
                        ![area_i] = Some(SelectSeq(places, LAMBDA p : ~p.malformed))]
    /\ area_i' = area_i + 1
    /\ pc' = "search"
    /\ UNCHANGED <<call_count, restaurants_data, places, place_j, requests_sent,
                   outcomes, responses, returned, csv_file, cleaned_file>>
    /\ UNCHANGED <<api_key, loaded, cleaned, report, call, ret>>

\* lines 315-321 and 333-345: save_raw_data(places, area_name), then on to the
\* next area
SaveRawData ==
    /\ pc = "map"
    /\ place_j > Len(places)
    /\ raw_files' = [raw_files EXCEPT ![area_i] = Some(places)]
    /\ area_i' = area_i + 1
    /\ pc' = "search"
    /\ UNCHANGED <<call_count, restaurants_data, places, place_j, requests_sent,
                   outcomes, responses, returned, csv_file, cleaned_file>>
    /\ UNCHANGED <<api_key, loaded, cleaned, report, call, ret>>

\* lines 323-331: `return self.restaurants_data`
ReturnData ==
    /\ pc = "search"
    /\ area_i > NumAreas
    /\ returned' = Some(restaurants_data)
    /\ pc' = "extracted"
    /\ UNCHANGED <<call_count, restaurants_data, area_i, places, place_j,
                   requests_sent, outcomes, responses, raw_files, csv_file,
                   cleaned_file>>
    /\ UNCHANGED <<api_key, loaded, cleaned, report, call, ret>>

-----------------------------------------------------------------------------
(* pandas operations on a table: a sequence of rows *)

\* the rows of df at the indices in K, in the order of df
RECURSIVE Pick(_, _, _)
Pick(df, K, k) ==
    IF k > Len(df) THEN <<>>
    ELSE (IF k \in K THEN <<df[k]>> ELSE <<>>) \o Pick(df, K, k + 1)

\* the indices drop_duplicates(keep='first') keeps, keys[k] being the subset
\* columns of row k: a row stays when no earlier row has its key
FirstOfKey(keys) ==
    {k \in DOMAIN keys : \A m \in 1 .. (k - 1) : keys[m] # keys[k]}

\* df.drop_duplicates(subset=..., keep='first')
DropDuplicates(df, keys) == Pick(df, FirstOfKey(keys), 1)

\* df[mask], mask a boolean per row
Filter(df, mask) == Pick(df, {k \in DOMAIN df : mask[k]}, 1)

-----------------------------------------------------------------------------
(* save_to_csv *)

NameAddress(row) == <<row.Restaurant_Name, row.Address>>

\* faulty variant: keep='last'
DedupNameAddressKeepLast(df) ==
    Pick(df, {k \in DOMAIN df :
                 \A m \in (k + 1) .. Len(df) : NameAddress(df[m]) # NameAddress(df[k])}, 1)

\* line 361
DedupNameAddress(df) ==
    DropDuplicates(df, [k \in DOMAIN df |-> NameAddress(df[k])])

\* line 368
NameKnown(row) == row.Restaurant_Name # Unknown

\* line 369
HasCoordinates(row) == ~IsNone(row.Latitude) /\ ~IsNone(row.Longitude)

\* lines 357-369: the table handed to df.to_csv
CsvTable(data) ==
    LET deduped == DedupNameAddress(data)
        named == Filter(deduped, [k \in DOMAIN deduped |-> NameKnown(deduped[k])])
    IN  Filter(named, [k \in DOMAIN named |-> HasCoordinates(named[k])])

-----------------------------------------------------------------------------
(* pd.read_csv of the file df.to_csv wrote *)

\* cells read_csv takes for a missing value
NaValues == {<<>>, <<"N","A">>, <<"N","a","N">>, <<"n","a","n">>, <<"N","U","L","L">>, <<"n","u","l","l">>, <<"N","/","A">>, <<"n","/","a">>}

\* a cell of a text column
ReadText(s) == IF s \in NaValues THEN None ELSE Some(s)

\* ZIP_Code is written as five digits in every row, so the column is read as
\* int64; the other columns keep their values, None becoming NaN
ReadRow(row) ==
    [ZIP_Code        |-> StrToInt(Val(row.ZIP_Code)),
     Restaurant_Name |-> ReadText(row.Restaurant_Name),
     Rating          |-> row.Rating,
     Review_Count    |-> row.Review_Count,
     Price_Level     |-> row.Price_Level,
     Latitude        |-> row.Latitude,
     Longitude       |-> row.Longitude,
     Neighborhood    |-> ReadText(row.Neighborhood),
     Address         |-> ReadText(row.Address)]

load_data(file) == [k \in DOMAIN file |-> ReadRow(file[k])]

-----------------------------------------------------------------------------
(* clean_data_quality *)

\* the bounding box of lines 138-139, in 1e-6 degrees
LatMin == 33500000
LatMax == 35000000
LonMin == -119500000
LonMax == -117000000

\* line 133: ~((Latitude == 0) & (Longitude == 0)); NaN == 0 is False
NotAtOrigin(row) == ~(row.Latitude = Some(0) /\ row.Longitude = Some(0))

\* faulty variant: the northern edge of the box is not checked
InBoundsNoNorthEdge(row) ==
    /\ ~IsNone(row.Latitude)
    /\ ~IsNone(row.Longitude)
    /\ Val(row.Latitude) >= LatMin
    /\ Val(row.Longitude) >= LonMin
    /\ Val(row.Longitude) <= LonMax

\* lines 137-140; a comparison with NaN is False
InBounds(row) ==
    /\ ~IsNone(row.Latitude)
    /\ ~IsNone(row.Longitude)
    /\ Val(row.Latitude) >= LatMin
    /\ Val(row.Latitude) <= LatMax
    /\ Val(row.Longitude) >= LonMin
    /\ Val(row.Longitude) <= LonMax

\* line 133
RemoveOrigin(df) == Filter(df, [k \in DOMAIN df |-> NotAtOrigin(df[k])])

\* lines 137-140
RemoveOutOfBounds(df) == Filter(df, [k \in DOMAIN df |-> InBounds(df[k])])

CleanCoordinates(df) == RemoveOutOfBounds(RemoveOrigin(df))

NameZip(row) == <<row.Restaurant_Name, row.ZIP_Code>>

\* line 143
DedupNameZip(df) == DropDuplicates(df, [k \in DOMAIN df |-> NameZip(df[k])])

\* .str.strip() then .str.title(); NaN stays NaN
StripTitle(o) == IF IsNone(o) THEN None ELSE Some(Title(Strip(Val(o))))

\* line 154: astype(str).str.zfill(5) of the int64 column
StandardizeZip(zip) == ZFill(IntToStr(zip), 5)

\* lines 146-154
NormalizeRow(row) ==
    [row EXCEPT !.Restaurant_Name = StripTitle(row.Restaurant_Name),
                !.Neighborhood = StripTitle(row.Neighborhood),
                !.ZIP_Code = StandardizeZip(row.ZIP_Code)]

NormalizeColumns(df) == [k \in DOMAIN df |-> NormalizeRow(df[k])]

\* lines 126-162
clean_data_quality(df) == NormalizeColumns(DedupNameZip(CleanCoordinates(df)))

\* lines 146-154 on a table clean_data_quality returned: ZIP_Code holds str,
\* which astype(str) leaves as it is
NormalizeRowOfOutput(row) ==
    [row EXCEPT !.Restaurant_Name = StripTitle(row.Restaurant_Name),
                !.Neighborhood = StripTitle(row.Neighborhood),
                !.ZIP_Code = ZFill(row.ZIP_Code, 5)]

\* lines 126-162 on a table clean_data_quality returned
clean_data_quality_on_output(df) ==
    LET deduped == DedupNameZip(CleanCoordinates(df))
    IN  [k \in DOMAIN deduped |-> NormalizeRowOfOutput(deduped[k])]

-----------------------------------------------------------------------------
(* add_calculated_fields *)

\* round(p / q) of Python 3 on an exact fraction with q > 0: half to even
RoundHalfEven(p, q) ==
    LET f == p \div q
        r == p - f * q
    IN  IF 2 * r < q THEN f
        ELSE IF 2 * r > q THEN f + 1
        ELSE IF f % 2 = 0 THEN f ELSE f + 1

\* lines 35-39; price_level is the cell of the float64 column, NaN being None
get_price_label(price_level) ==
    IF IsNone(price_level) THEN "Unknown"
    ELSE CASE Val(price_level) = 0 -> "Free"
           [] Val(price_level) = 1 -> "$"
           [] Val(price_level) = 2 -> "$$"
           [] Val(price_level) = 3 -> "$$$"
           [] Val(price_level) = 4 -> "$$$$"
           [] OTHER -> "Unknown"

\* faulty variant: the thresholds compared with > instead of >=
get_rating_category_exclusive(rating) ==
    IF IsNone(rating) THEN "No Rating"
    ELSE IF Val(rating) > 45 THEN "Excellent (4.5+)"
    ELSE IF Val(rating) > 40 THEN "Very Good (4.0-4.4)"
    ELSE IF Val(rating) > 35 THEN "Good (3.5-3.9)"
    ELSE IF Val(rating) > 30 THEN "Average (3.0-3.4)"
    ELSE "Below Average (<3.0)"

\* lines 44-56; rating in tenths of a star
get_rating_category(rating) ==
    IF IsNone(rating) THEN "No Rating"
    ELSE IF Val(rating) >= 45 THEN "Excellent (4.5+)"
    ELSE IF Val(rating) >= 40 THEN "Very Good (4.0-4.4)"
    ELSE IF Val(rating) >= 35 THEN "Good (3.5-3.9)"
    ELSE IF Val(rating) >= 30 THEN "Average (3.0-3.4)"
    ELSE "Below Average (<3.0)"

\* lines 61-71; Review_Count is never NaN in a table the Collector wrote
get_review_volume(review_count) ==
    IF review_count = 0 THEN "No Reviews"
    ELSE IF review_count >= 1000 THEN "High Volume (1000+)"
    ELSE IF review_count >= 500 THEN "Medium Volume (500-999)"
    ELSE IF review_count >= 100 THEN "Low Volume (100-499)"
    ELSE "Very Low Volume (<100)"

\* the rows of df whose ZIP_Code is zip
RowsOfZip(df, zip) == {k \in DOMAIN df : df[k].ZIP_Code = zip}

\* the rows of df whose Neighborhood is n
RowsOfNeighborhood(df, n) == {k \in DOMAIN df : df[k].Neighborhood = n}

RECURSIVE SumRating(_, _)
SumRating(df, K) ==
    IF K = {} THEN 0
    ELSE LET k == CHOOSE x \in K : TRUE
         IN  Val(df[k].Rating) + SumRating(df, K \ {k})

\* groupby(...)['Rating'].mean() of the group K: the mean of the ratings that
\* are not NaN, as the fraction num / den of tenths of a star; NaN when the
\* group has no rating
MeanRating(df, K) ==
    LET rated == {k \in K : ~IsNone(df[k].Rating)}
    IN  IF rated = {} THEN None
        ELSE Some([num |-> SumRating(df, rated), den |-> Cardinality(rated)])

\* faulty variant: the count is not capped at 20
calculate_market_saturation_uncapped(row) ==
    IF IsNone(row.ZIP_Avg_Rating) \/ IsNone(row.Restaurants_in_ZIP) THEN None
    ELSE LET avg == Val(row.ZIP_Avg_Rating)
             count == Val(row.Restaurants_in_ZIP)
         IN  Some(RoundHalfEven(30 * count * avg.den + 8 * avg.num, avg.den))

\* lines 92-101, in thousandths: 0.6 * min(count / 20, 1) is 30 * min(count, 20)
\* thousandths, 0.4 * (avg / 5.0) is 8 * num / den thousandths
calculate_market_saturation(row) ==
    IF IsNone(row.ZIP_Avg_Rating) \/ IsNone(row.Restaurants_in_ZIP) THEN None
    ELSE LET avg == Val(row.ZIP_Avg_Rating)
             count == Val(row.Restaurants_in_ZIP)
             capped == IF count < 20 THEN count ELSE 20
         IN  Some(RoundHalfEven(30 * capped * avg.den + 8 * avg.num, avg.den))

\* faulty variant: the rule of the moderate target is tried first
is_high_value_target_moderate_first(row) ==
    IF IsNone(row.ZIP_Avg_Rating) \/ IsNone(row.Restaurants_in_ZIP) THEN "Unknown"
    ELSE LET avg == Val(row.ZIP_Avg_Rating)
             restaurant_count == Val(row.Restaurants_in_ZIP)
         IN  IF avg.num >= 35 * avg.den /\ restaurant_count <= 15
                 THEN "Moderate Value Target"
             ELSE IF avg.num >= 40 * avg.den /\ restaurant_count <= 10
                 THEN "High Value Target"
             ELSE IF restaurant_count >= 30 THEN "Saturated Market"
             ELSE "Standard Market"

\* lines 106-120
is_high_value_target(row) ==
    IF IsNone(row.ZIP_Avg_Rating) \/ IsNone(row.Restaurants_in_ZIP) THEN "Unknown"
    ELSE LET avg == Val(row.ZIP_Avg_Rating)
             restaurant_count == Val(row.Restaurants_in_ZIP)
         IN  IF avg.num >= 40 * avg.den /\ restaurant_count <= 10
                 THEN "High Value Target"
             ELSE IF avg.num >= 35 * avg.den /\ restaurant_count <= 15
                 THEN "Moderate Value Target"
             ELSE IF restaurant_count >= 30 THEN "Saturated Market"
             ELSE "Standard Market"

\* lines 76-89: the aggregates of row k joined back onto it
Aggregates(df, k) ==
    [Restaurants_in_ZIP |-> Some(Cardinality(RowsOfZip(df, df[k].ZIP_Code))),
     ZIP_Avg_Rating |-> MeanRating(df, RowsOfZip(df, df[k].ZIP_Code)),
     Restaurants_in_Neighborhood |->
         IF IsNone(df[k].Neighborhood) THEN None
         ELSE Some(Cardinality(RowsOfNeighborhood(df, df[k].Neighborhood))),
     Neighborhood_Avg_Rating |->
         IF IsNone(df[k].Neighborhood) THEN None
         ELSE MeanRating(df, RowsOfNeighborhood(df, df[k].Neighborhood))]

\* the columns of the table the Cleaner loads
OriginalColumns ==
    {"ZIP_Code", "Restaurant_Name", "Rating", "Review_Count", "Price_Level",
     "Latitude", "Longitude", "Neighborhood", "Address"}

\* a row with the columns of `more` appended
WithColumns(row, more) ==
    [c \in (DOMAIN row) \cup (DOMAIN more) |->
        IF c \in DOMAIN more THEN more[c] ELSE row[c]]

\* row k of the table add_calculated_fields returns
EnrichedRow(df, k) ==
    LET agg == Aggregates(df, k)
    IN  WithColumns(df[k],
            [Price_Label |-> get_price_label(df[k].Price_Level),
             Rating_Category |-> get_rating_category(df[k].Rating),
             Review_Volume |-> get_review_volume(df[k].Review_Count),
             Restaurants_in_ZIP |-> agg.Restaurants_in_ZIP,
             ZIP_Avg_Rating |-> agg.ZIP_Avg_Rating,
             Restaurants_in_Neighborhood |-> agg.Restaurants_in_Neighborhood,
             Neighborhood_Avg_Rating |-> agg.Neighborhood_Avg_Rating,
             Market_Saturation_Index |-> calculate_market_saturation(agg),
             Market_Opportunity |-> is_high_value_target(agg)])

\* faulty variant: the aggregates are computed by a group-by that leaves one
\* row per ZIP_Code
add_calculated_fields_grouped(df) ==
    LET whole == [k \in DOMAIN df |-> EnrichedRow(df, k)]
    IN  DropDuplicates(whole, [k \in DOMAIN df |-> df[k].ZIP_Code])

\* lines 31-124
add_calculated_fields(df) == [k \in DOMAIN df |-> EnrichedRow(df, k)]

-----------------------------------------------------------------------------
(* run_extraction.main after run_full_extraction *)

\* lines 27-29 of run_extraction.py: `if not restaurants: return`
MainNoRestaurants ==
    /\ pc = "extracted"
    /\ restaurants_data = <<>>
    /\ pc' = "stopped"
    /\ report' = "no restaurants"
    /\ UNCHANGED <<call_count, restaurants_data, area_i, places, place_j,
                   requests_sent, outcomes, responses, raw_files, returned,
                   csv_file, cleaned_file, api_key, loaded, cleaned, call, ret>>

\* line 32 of run_extraction.py: extractor.save_to_csv()
SaveToCsv ==
    /\ pc = "extracted"
    /\ restaurants_data # <<>>
    /\ csv_file' = Some(CsvTable(restaurants_data))
    /\ pc' = "saved"
    /\ UNCHANGED <<call_count, restaurants_data, area_i, places, place_j,
                   requests_sent, outcomes, responses, raw_files, returned,
                   cleaned_file>>
    /\ UNCHANGED <<api_key, loaded, cleaned, report, call, ret>>

\* lines 38-47 of run_extraction.py: DataCleaner().process_all_data() with
\* the input file there and readable, then EXTRACTION COMPLETE
ProcessAllData ==
    /\ pc = "saved"
    /\ loaded' = Some(load_data(Val(csv_file)))
    /\ cleaned' = Some(clean_data_quality(Val(loaded')))
    /\ cleaned_file' = Some(add_calculated_fields(Val(cleaned')))
    /\ report' = "complete"
    /\ pc' = "done"
    /\ UNCHANGED <<call_count, restaurants_data, area_i, places, place_j,
                   requests_sent, outcomes, responses, raw_files, returned,
                   csv_file, api_key, call, ret>>

\* lines 38-47 of run_extraction.py, lines 19-29 and 199-202 of
\* data_cleaner.py: the input file is not there when load_data looks for it,
\* or pd.read_csv raises; load_data returns None, process_all_data returns,
\* main goes on to EXTRACTION COMPLETE
ProcessAllDataNotLoaded ==
    /\ pc = "saved"
    /\ loaded' = None
    /\ report' = "complete"
    /\ pc' = "done"
    /\ UNCHANGED <<call_count, restaurants_data, area_i, places, place_j,
                   requests_sent, outcomes, responses, raw_files, returned,
                   csv_file, cleaned_file, api_key, cleaned, call, ret>>

-----------------------------------------------------------------------------

Next ==
    \/ Construct
    \/ ConstructRaises
    \/ SearchAtLimit
    \/ SearchOk
    \/ SearchApiError
    \/ SearchPostRaises
    \/ SearchJsonRaises
    \/ MapPlace
    \/ SaveRawData
    \/ ReturnData
    \/ MainNoRestaurants
    \/ SaveToCsv
    \/ ProcessAllData
    \/ ProcessAllDataNotLoaded

Spec == Init /\ [][Next]_vars

-----------------------------------------------------------------------------
(* The functions of the derived fields called on their own: price_level_map
   followed by get_price_label, get_price_label, get_rating_category,
   calculate_market_saturation and is_high_value_target, each on arguments
   drawn from the sets below *)

\* largest rating drawn, in tenths of a star (the scale ends at 50)
MaxRating == 55

\* largest Restaurants_in_ZIP drawn
MaxCount == 35

\* largest number of rated rows behind a ZIP_Avg_Rating drawn
MaxRated == 2

\* place.get('priceLevel'): the key missing, the five values of the table, a
\* value of the API that is not in the table, and strings that are no value
RawPriceLevels ==
    {None, Some("PRICE_LEVEL_FREE"), Some("PRICE_LEVEL_INEXPENSIVE"),
     Some("PRICE_LEVEL_MODERATE"), Some("PRICE_LEVEL_EXPENSIVE"),
     Some("PRICE_LEVEL_VERY_EXPENSIVE"), Some("PRICE_LEVEL_UNSPECIFIED"),
     Some("price_level_free"), Some("0"), Some("")}

\* cells of the Price_Level column: NaN and the integers around 0 .. 4
PriceLevels == {None} \cup {Some(n) : n \in (0 - 2) .. 7}

\* cells of the Rating column
Ratings == {None} \cup {Some(n) : n \in 0 .. MaxRating}

\* cells of ZIP_Avg_Rating: NaN and the means of 1 .. MaxRated ratings
AvgRatings ==
    {None} \cup
    {Some([num |-> n, den |-> d]) : n \in 0 .. (MaxRating * MaxRated), d \in 1 .. MaxRated}

\* cells of Restaurants_in_ZIP
Counts == {None} \cup {Some(n) : n \in 0 .. MaxCount}

AggregateRows == [ZIP_Avg_Rating : AvgRatings, Restaurants_in_ZIP : Counts]

Calls ==
    {[fn |-> "price_level_map", arg |-> a] : a \in RawPriceLevels}
    \cup {[fn |-> "get_price_label", arg |-> a] : a \in PriceLevels}
    \cup {[fn |-> "get_rating_category", arg |-> a] : a \in Ratings}
    \cup {[fn |-> "calculate_market_saturation", arg |-> a] : a \in AggregateRows}
    \cup {[fn |-> "is_high_value_target", arg |-> a] : a \in AggregateRows}

FieldInit ==
    /\ pc = "call"
    /\ call \in Calls
    /\ ret = None
    /\ api_key = None
    /\ call_count = 0
    /\ restaurants_data = <<>>
    /\ area_i = 1
    /\ places = <<>>
    /\ place_j = 1
    /\ requests_sent = 0
    /\ outcomes = <<>>
    /\ responses = <<>>
    /\ raw_files = [a \in 1 .. NumAreas |-> None]
    /\ returned = None
    /\ csv_file = None
    /\ cleaned_file = None
    /\ loaded = None
    /\ cleaned = None
    /\ report = "none"

\* what every call does besides computing its value
Returns(value) ==
    /\ ret' = Some(value)
    /\ pc' = "returned"
    /\ UNCHANGED <<call_count, restaurants_data, area_i, places, place_j,
                   requests_sent, outcomes, responses, raw_files, returned,
                   csv_file, cleaned_file, api_key, loaded, cleaned, report,
                   call>>

\* data_extractor.py line 113, then data_cleaner.py line 41 on the Price_Level
\* of the record
CallPriceLevelMap ==
    /\ pc = "call"
    /\ call.fn = "price_level_map"
    /\ Returns([Price_Level |-> price_level_map(call.arg),
                Price_Label |-> get_price_label(price_level_map(call.arg))])

\* data_cleaner.py line 41 on one cell
CallGetPriceLabel ==
    /\ pc = "call"
    /\ call.fn = "get_price_label"
    /\ Returns(get_price_label(call.arg))

\* data_cleaner.py line 58 on one cell
CallGetRatingCategory ==
    /\ pc = "call"
    /\ call.fn = "get_rating_category"
    /\ Returns(get_rating_category(call.arg))

\* data_cleaner.py line 103 on one row
CallCalculateMarketSaturation ==
    /\ pc = "call"
    /\ call.fn = "calculate_market_saturation"
    /\ Returns(calculate_market_saturation(call.arg))

\* data_cleaner.py line 122 on one row
CallIsHighValueTarget ==
    /\ pc = "call"
    /\ call.fn = "is_high_value_target"
    /\ Returns(is_high_value_target(call.arg))

FieldNext ==
    \/ CallPriceLevelMap
    \/ CallGetPriceLabel
    \/ CallGetRatingCategory
    \/ CallCalculateMarketSaturation
    \/ CallIsHighValueTarget

FieldSpec == FieldInit /\ [][FieldNext]_vars

-----------------------------------------------------------------------------
(* Properties *)

AreaIndex(name) == CHOOSE a \in DOMAIN search_areas : search_areas[a].name = name

RecordsOfArea(a) ==
    {k \in DOMAIN restaurants_data :
        restaurants_data[k].Neighborhood = search_areas[a].name}

\* C1: over a run, whatever the outcomes of the searches, the number of
\* requests issued to the search API never exceeds daily_limit.
C1_RequestsWithinLimit == requests_sent <= daily_limit

\* C2: once call_count has reached daily_limit, no further request is issued,
\* every area searched from then on gets an empty result and adds no record,
\* the records collected so far stay as they are and in their order, and the
\* run returns the collected sequence.
C2_CeilingShortCircuits ==
    [][ /\ IsPrefix(restaurants_data, restaurants_data')
        /\ call_count >= daily_limit =>
              /\ requests_sent' = requests_sent
              /\ call_count' = call_count
              /\ pc = "search" /\ area_i <= NumAreas =>
                    /\ places' = <<>>
                    /\ outcomes' = Append(outcomes, "limit")
              /\ pc = "map" /\ outcomes[area_i] = "limit" =>
                    restaurants_data' = restaurants_data
        /\ pc = "search" /\ pc' = "extracted" =>
              returned' = Some(restaurants_data)
      ]_vars

\* C2 witness: the run is over, the ceiling was reached, an area was searched
\* after that, and records had been collected.
C2_Witness ==
    /\ pc = "extracted"
    /\ call_count >= daily_limit
    /\ outcomes[NumAreas] = "limit"
    /\ restaurants_data # <<>>
    /\ returned = Some(restaurants_data)

\* C3: an area whose search failed (a status other than 200, an exception)
\* contributes no record and leaves the collected records as they are; it is
\* searched once (no retry); the loop goes on, and the run ends with every
\* area visited in list order.
C3_FailedAreaSkipped ==
    [][ /\ IsPrefix(restaurants_data, restaurants_data')
        /\ \A a \in DOMAIN outcomes' :
              outcomes'[a] = "error" =>
                  /\ responses'[a] = <<>>
                  /\ \A k \in DOMAIN restaurants_data' :
                        restaurants_data'[k].Neighborhood # search_areas[a].name
        /\ requests_sent' <= Len(outcomes')
        /\ area_i' \in {area_i, area_i + 1}
        /\ pc' \in {"extracted", "stopped", "saved", "done"} =>
              /\ Len(outcomes') = NumAreas
              /\ area_i' = NumAreas + 1
      ]_vars

\* C3 witness: the run is over, the search of the first area failed and a
\* later area contributed records.
C3_Witness ==
    /\ pc = "extracted"
    /\ outcomes[1] = "error"
    /\ \E a \in 2 .. NumAreas : outcomes[a] = "ok" /\ RecordsOfArea(a) # {}

C5_NoDuplicateNameZip ==
    ~IsNone(cleaned_file) =>
        \A i, j \in DOMAIN Val(cleaned_file) :
            i < j =>
                <<Val(cleaned_file)[i].Restaurant_Name, Val(cleaned_file)[i].ZIP_Code>>
                    # <<Val(cleaned_file)[j].Restaurant_Name, Val(cleaned_file)[j].ZIP_Code>>

SameNameAddress(r1, r2) ==
    r1.Restaurant_Name = r2.Restaurant_Name /\ r1.Address = r2.Address

\* the first record collected with the name and address of row
FirstCollected(row) ==
    CHOOSE k \in DOMAIN restaurants_data :
        /\ SameNameAddress(restaurants_data[k], row)
        /\ \A m \in 1 .. (k - 1) : ~SameNameAddress(restaurants_data[m], row)

\* C6 (as claimed): records with the same (Restaurant_Name, Address) collapse
\* to exactly one row of the table save_to_csv writes, the first collected.
C6_ExactlyOneRowPerKey ==
    ~IsNone(csv_file) =>
        \A k, m \in DOMAIN restaurants_data :
            k < m /\ SameNameAddress(restaurants_data[k], restaurants_data[m]) =>
                /\ Cardinality({i \in DOMAIN Val(csv_file) :
                       SameNameAddress(Val(csv_file)[i], restaurants_data[k])}) = 1
                /\ \E i \in DOMAIN Val(csv_file) :
                       Val(csv_file)[i] = restaurants_data[FirstCollected(restaurants_data[k])]

\* C6 (amended): records with the same (Restaurant_Name, Address) collapse to
\* at most one row, which is the first one collected; there is exactly one
\* when that first record has a name other than "Unknown" and both
\* coordinates, and none otherwise; the rows are in collection order.
C6_FirstOfKeyKept ==
    ~IsNone(csv_file) =>
        LET t == Val(csv_file)
        IN  /\ \A i, j \in DOMAIN t : i < j => ~SameNameAddress(t[i], t[j])
            /\ \A i \in DOMAIN t : t[i] = restaurants_data[FirstCollected(t[i])]
            /\ \A i, j \in DOMAIN t :
                  i < j => FirstCollected(t[i]) < FirstCollected(t[j])
            /\ \A k \in DOMAIN restaurants_data :
                  LET first == restaurants_data[FirstCollected(restaurants_data[k])]
                  IN  (\E i \in DOMAIN t : SameNameAddress(t[i], first))
                          <=> /\ first.Restaurant_Name # Unknown
                              /\ ~IsNone(first.Latitude)
                              /\ ~IsNone(first.Longitude)

\* C6 witness: two records with the same name and address and the ratings 4.0
\* and 4.2 were collected in that order, and the table holds the 4.0 one.
C6_Witness ==
    /\ ~IsNone(csv_file)
    /\ \E k, m \in DOMAIN restaurants_data :
          /\ k < m
          /\ SameNameAddress(restaurants_data[k], restaurants_data[m])
          /\ restaurants_data[k].Rating = Some(40)
          /\ restaurants_data[m].Rating = Some(42)
          /\ FirstCollected(restaurants_data[k]) = k
    /\ \E i \in DOMAIN Val(csv_file) :
          /\ Val(csv_file)[i].Restaurant_Name = JoeName
          /\ Val(csv_file)[i].Rating = Some(40)
    /\ Len(Val(csv_file)) = 1

\* C7: every row of the cleaned table has a Rating in [0, 5] or none.
C7_RatingInRange ==
    ~IsNone(cleaned_file) =>
        \A i \in DOMAIN Val(cleaned_file) :
            \/ IsNone(Val(cleaned_file)[i].Rating)
            \/ /\ Val(Val(cleaned_file)[i].Rating) >= 0
               /\ Val(Val(cleaned_file)[i].Rating) <= 50

\* C8: every row of the cleaned table has a Review_Count >= 0.
C8_ReviewCountNonNegative ==
    ~IsNone(cleaned_file) =>
        \A i \in DOMAIN Val(cleaned_file) : Val(cleaned_file)[i].Review_Count >= 0

\* C9: every row of the cleaned table has a Latitude in [33.5, 35.0] and a
\* Longitude in [-119.5, -117.0]; no row at (0, 0) or without coordinates is
\* in it.
C9_CoordinatesInBox ==
    ~IsNone(cleaned_file) =>
        \A i \in DOMAIN Val(cleaned_file) :
            LET row == Val(cleaned_file)[i]
            IN  /\ ~IsNone(row.Latitude)
                /\ ~IsNone(row.Longitude)
                /\ Val(row.Latitude) >= 33500000
                /\ Val(row.Latitude) <= 35000000
                /\ Val(row.Longitude) >= -119500000
                /\ Val(row.Longitude) <= -117000000

\* C9 witness: the table the Cleaner read held a row north of the box and a
\* row on the corner of the box; the cleaned table holds the second and not
\* the first.
C9_Witness ==
    /\ ~IsNone(cleaned_file)
    /\ \E k \in DOMAIN Val(csv_file) : Val(csv_file)[k].Latitude = Some(36000000)
    /\ Len(Val(cleaned_file)) = 1
    /\ Val(cleaned_file)[1].Latitude = Some(33500000)
    /\ Val(cleaned_file)[1].Longitude = Some(-117000000)

IsZip5(z) == Len(z) = 5 /\ \A k \in 1 .. 5 : z[k] \in DigitChars

\* the five digits at the leftmost place of address where five digits, or
\* five digits, a dash and four digits, stand between word boundaries
FirstZipOf(address) ==
    LET starts == {p \in DOMAIN address : ZipMatchAt(address, p)}
        p0 == CHOOSE p \in starts : \A q \in starts : p <= q
    IN  <<address[p0], address[p0 + 1], address[p0 + 2], address[p0 + 3],
          address[p0 + 4]>>

HasZipPattern(address) == \E p \in DOMAIN address : ZipMatchAt(address, p)

\* C10: the ZIP_Code of every record the Collector appends is the first five
\* digits of the first ZIP pattern of its address if there is one, else the
\* zip_hint of its area; it is five digits, and the row the Cleaner writes for
\* the record has the same five digits.
C10_ZipResolved ==
    /\ \A k \in DOMAIN restaurants_data :
          LET rec == restaurants_data[k]
          IN  /\ ~IsNone(rec.ZIP_Code)
              /\ IsZip5(Val(rec.ZIP_Code))
              /\ Val(rec.ZIP_Code) =
                    IF HasZipPattern(rec.Address) THEN FirstZipOf(rec.Address)
                    ELSE search_areas[AreaIndex(rec.Neighborhood)].zip_hint
    /\ ~IsNone(cleaned_file) =>
          \A i \in DOMAIN Val(cleaned_file) :
              /\ IsZip5(Val(cleaned_file)[i].ZIP_Code)
              /\ \E k \in DOMAIN Val(csv_file) :
                    /\ ReadText(Val(csv_file)[k].Address) = Val(cleaned_file)[i].Address
                    /\ Val(csv_file)[k].Rating = Val(cleaned_file)[i].Rating
                    /\ Val(Val(csv_file)[k].ZIP_Code) = Val(cleaned_file)[i].ZIP_Code

\* C10 witness: the cleaned table holds a row whose ZIP_Code is the hint of
\* its area and a row whose ZIP_Code starts with 0.
C10_Witness ==
    /\ ~IsNone(cleaned_file)
    /\ \E i \in DOMAIN Val(cleaned_file) :
          /\ ~IsNone(Val(cleaned_file)[i].Address)
          /\ ~HasZipPattern(Val(Val(cleaned_file)[i].Address))
          /\ Val(cleaned_file)[i].ZIP_Code = search_areas[1].zip_hint
    /\ \E i \in DOMAIN Val(cleaned_file) :
          /\ Val(cleaned_file)[i].ZIP_Code[1] = "0"
          /\ ~IsNone(Val(cleaned_file)[i].Address)
          /\ HasZipPattern(Val(Val(cleaned_file)[i].Address))

\* C16: when the API credential is missing or empty, the construction of the
\* Collector fails and the process stops before any search request is sent:
\* in no state of a run has a request been issued, or the loop over the areas
\* been entered, with an absent credential.
C16_NoRequestWithoutKey ==
    (IsNone(api_key) \/ api_key = Some("")) =>
        /\ requests_sent = 0
        /\ call_count = 0
        /\ pc \in {"start", "exited"}
        /\ pc = "exited" => report = "fatal"
        /\ outcomes = <<>>
        /\ csv_file = None

\* C16 witness: the process has exited on the ValueError of the constructor,
\* the credential being the empty string.
C16_Witness ==
    /\ api_key = Some("")
    /\ pc = "exited"
    /\ report = "fatal"
    /\ requests_sent = 0


\* C15: when the input file of the Cleaner is not there or cannot be parsed,
\* process_all_data aborts the run: no cleaned file is written, no cleaning or
\* derivation step runs, and the caller, run_extraction.main, does not go on
\* to report the run as complete.
C15_LoadFailureSurfaced ==
    (pc = "done" /\ IsNone(loaded)) =>
        /\ cleaned_file = None
        /\ cleaned = None
        /\ report # "complete"


\* the enum values of the price level, in the order of their integers 0 .. 4
KnownPriceLevels ==
    <<"PRICE_LEVEL_FREE", "PRICE_LEVEL_INEXPENSIVE", "PRICE_LEVEL_MODERATE",
      "PRICE_LEVEL_EXPENSIVE", "PRICE_LEVEL_VERY_EXPENSIVE">>

\* the labels of the price levels 0 .. 4
PriceLabels == <<"Free", "$", "$$", "$$$", "$$$$">>

AvgAtLeast(avg, n) == avg.num >= n * avg.den

\* C13: Market_Opportunity is "Unknown" if ZIP_Avg_Rating or
\* Restaurants_in_ZIP is absent; else "High Value Target" if avg >= 4.0 and
\* count <= 10; else "Moderate Value Target" if avg >= 3.5 and count <= 15;
\* else "Saturated Market" if count >= 30; else "Standard Market". Every
\* (avg, count) gets exactly one label, and avg 4.2 with count 8 gets "High
\* Value Target".
C13_FirstMatchWins ==
    (~IsNone(ret) /\ call.fn = "is_high_value_target") =>
        LET absent == IsNone(call.arg.ZIP_Avg_Rating) \/ IsNone(call.arg.Restaurants_in_ZIP)
            avg == Val(call.arg.ZIP_Avg_Rating)
            count == Val(call.arg.Restaurants_in_ZIP)
            high == AvgAtLeast(avg, 40) /\ count <= 10
            moderate == AvgAtLeast(avg, 35) /\ count <= 15
            saturated == count >= 30
        IN  /\ Val(ret) \in {"Unknown", "High Value Target", "Moderate Value Target",
                             "Saturated Market", "Standard Market"}
            /\ (Val(ret) = "Unknown") <=> absent
            /\ ~absent =>
                  /\ (Val(ret) = "High Value Target") <=> high
                  /\ (Val(ret) = "Moderate Value Target") <=> (~high /\ moderate)
                  /\ (Val(ret) = "Saturated Market") <=> (~high /\ ~moderate /\ saturated)
                  /\ (Val(ret) = "Standard Market") <=> (~high /\ ~moderate /\ ~saturated)
                  /\ (avg.num = 42 * avg.den /\ count = 8) => Val(ret) = "High Value Target"

\* C13 witness: avg 4.2 with count 8, which satisfies the rule of the moderate
\* target too, has been labelled "High Value Target".
C13_Witness ==
    /\ ~IsNone(ret)
    /\ call.fn = "is_high_value_target"
    /\ call.arg.ZIP_Avg_Rating = Some([num |-> 42, den |-> 1])
    /\ call.arg.Restaurants_in_ZIP = Some(8)
    /\ Val(ret) = "High Value Target"

\* C14: Market_Saturation_Index is 0.6 * min(Restaurants_in_ZIP / 20, 1) +
\* 0.4 * (ZIP_Avg_Rating / 5) rounded to 3 decimals; it is absent exactly when
\* one of the two aggregates is absent, and it lies in [0, 1] for every
\* Restaurants_in_ZIP >= 0 and ZIP_Avg_Rating in [0, 5].
C14_SaturationInUnitInterval ==
    (~IsNone(ret) /\ call.fn = "calculate_market_saturation") =>
        LET absent == IsNone(call.arg.ZIP_Avg_Rating) \/ IsNone(call.arg.Restaurants_in_ZIP)
            avg == Val(call.arg.ZIP_Avg_Rating)
            count == Val(call.arg.Restaurants_in_ZIP)
            index == Val(Val(ret))
            \* the unrounded value in thousandths, times den
            exact == 30 * (IF count <= 20 THEN count ELSE 20) * avg.den + 8 * avg.num
        IN  /\ IsNone(Val(ret)) <=> absent
            /\ ~absent =>
                  /\ 2 * (index * avg.den - exact) <= avg.den
                  /\ 2 * (exact - index * avg.den) <= avg.den
                  /\ (count >= 0 /\ avg.num >= 0 /\ avg.num <= 50 * avg.den) =>
                        (index >= 0 /\ index <= 1000)

\* C14 witness: more than 20 restaurants in the ZIP and an average of 5.0 give
\* the index 1.0.
C14_Witness ==
    /\ ~IsNone(ret)
    /\ call.fn = "calculate_market_saturation"
    /\ call.arg.Restaurants_in_ZIP = Some(MaxCount)
    /\ call.arg.ZIP_Avg_Rating = Some([num |-> 50, den |-> 1])
    /\ Val(ret) = Some(1000)

\* the buckets of the rating in rising order
RatingBuckets ==
    <<"Below Average (<3.0)", "Average (3.0-3.4)", "Good (3.5-3.9)",
      "Very Good (4.0-4.4)", "Excellent (4.5+)">>

\* the rating each bucket after the first starts at, in tenths of a star
BucketStarts == <<30, 35, 40, 45>>

BucketRank(label) == CHOOSE i \in DOMAIN RatingBuckets : RatingBuckets[i] = label

\* C19: Rating_Category gives every rating one bucket of the five, with
\* inclusive lower bounds: absent gives "No Rating"; a rating below 3.0 gives
\* "Below Average"; exactly 3.0 falls in the bucket next above "Below
\* Average", and exactly 3.5, 4.0 and 4.5 fall in the bucket that starts at
\* that value; the bucket never falls when the rating rises.
C19_RatingBuckets ==
    (~IsNone(ret) /\ call.fn = "get_rating_category") =>
        /\ IsNone(call.arg) <=> Val(ret) = "No Rating"
        /\ ~IsNone(call.arg) =>
              LET rating == Val(call.arg)
              IN  /\ \E i \in DOMAIN RatingBuckets : Val(ret) = RatingBuckets[i]
                  /\ rating < 30 <=> BucketRank(Val(ret)) = 1
                  /\ \A b \in DOMAIN BucketStarts :
                        /\ rating = BucketStarts[b] => BucketRank(Val(ret)) = b + 1
                        /\ rating >= BucketStarts[b] <=> BucketRank(Val(ret)) >= b + 1
                  /\ \A lower \in 0 .. rating :
                        BucketRank(get_rating_category(Some(lower))) <= BucketRank(Val(ret))

\* C19 witness: the rating 3.0 has been put in "Average (3.0-3.4)".
C19_Witness ==
    /\ ~IsNone(ret)
    /\ call.fn = "get_rating_category"
    /\ call.arg = Some(30)
    /\ Val(ret) = "Average (3.0-3.4)"


\* C12: no row of the cleaned table has a Restaurant_Name that is empty, null
\* or the placeholder "Unknown": over the Collector's filter in save_to_csv
\* and the Cleaner's trimming and title-casing, every record whose name is
\* empty, whitespace-only, missing or a placeholder in any letter case is
\* dropped.
C12_NoPlaceholderName ==
    ~IsNone(cleaned_file) =>
        \A i \in DOMAIN Val(cleaned_file) :
            /\ ~IsNone(Val(cleaned_file)[i].Restaurant_Name)
            /\ Val(cleaned_file)[i].Restaurant_Name # Some(<<>>)
            /\ Val(cleaned_file)[i].Restaurant_Name # Some(Unknown)


\* C17: the cleaning pass is idempotent: clean_data_quality applied to the
\* table it returned gives that table again, the same rows with the same
\* values; its deduplication removes nothing the second time.
C17_CleaningIdempotent ==
    ~IsNone(cleaned) =>
        /\ Len(DedupNameZip(Val(cleaned))) = Len(Val(cleaned))
        /\ clean_data_quality_on_output(Val(cleaned)) = Val(cleaned)

\* out is made of rows of in, each taken once, in the order of in
IsSelection(out, in) ==
    \E f \in [DOMAIN out -> DOMAIN in] :
        /\ \A i, j \in DOMAIN out : i < j => f[i] < f[j]
        /\ \A i \in DOMAIN out : out[i] = in[f[i]]

\* the columns no step of the Cleaner writes to
UntouchedColumns ==
    {"Rating", "Review_Count", "Price_Level", "Latitude", "Longitude", "Address"}

\* C18: the Cleaner never adds, splits or merges rows: after each step of
\* clean_data_quality and after add_calculated_fields the table has at most
\* as many rows as before, every row of it comes from one row of the table
\* before, and the rows keep their order; add_calculated_fields changes no
\* row count and no original column, it only appends columns.
C18_RowsOnlyRemoved ==
    ~IsNone(cleaned_file) =>
        LET t0 == Val(loaded)
            t1 == RemoveOrigin(t0)
            t2 == RemoveOutOfBounds(t1)
            t3 == DedupNameZip(t2)
            t4 == Val(cleaned)
            t5 == Val(cleaned_file)
        IN  /\ IsSelection(t1, t0)
            /\ IsSelection(t2, t1)
            /\ IsSelection(t3, t2)
            /\ Len(t4) = Len(t3)
            /\ \A k \in DOMAIN t4 :
                  /\ DOMAIN t4[k] = OriginalColumns
                  /\ \A c \in UntouchedColumns : t4[k][c] = t3[k][c]
            /\ Len(t5) = Len(t4)
            /\ \A k \in DOMAIN t5 :
                  /\ OriginalColumns \subseteq DOMAIN t5[k]
                  /\ \A c \in OriginalColumns : t5[k][c] = t4[k][c]
            /\ Len(t5) <= Len(t0)
            /\ \E f \in [DOMAIN t5 -> DOMAIN t0] :
                  /\ \A i, j \in DOMAIN t5 : i < j => f[i] < f[j]
                  /\ \A i \in DOMAIN t5 :
                        \A c \in UntouchedColumns : t5[i][c] = t0[f[i]][c]

\* C18 witness: the Cleaner loaded two rows, dropped the first and kept the
\* second, to which the derived columns were appended.
C18_Witness ==
    /\ ~IsNone(cleaned_file)
    /\ Len(Val(loaded)) = 2
    /\ Len(Val(cleaned_file)) = 1
    /\ Val(cleaned_file)[1].Address = Val(loaded)[2].Address
    /\ Val(cleaned_file)[1].Address # Val(loaded)[1].Address
    /\ "Market_Opportunity" \in DOMAIN Val(cleaned_file)[1]

=============================================================================
